---- MODULE Spec2Model ----
(***************************************************************************)
(* The client multiplexer of GeeRPC (src/unnamed/part_000): one Client,    *)
(* its pending table, sequence counter and lifecycle flags, the two        *)
(* mutexes `sending` and `mu`, the background receive loop, and caller     *)
(* goroutines that run Go, Call, Close and IsAvailable concurrently.  The   *)
(* codec (src/01-codec/codec/codec.go) is an interface: its reads and      *)
(* writes are steps whose outcome the environment chooses.                 *)
(***************************************************************************)
EXTENDS Naturals, Sequences, FiniteSets

\* ---------------------------------------------------------------- bounds
\* Calls created over one run (Go and Call submissions that build a Call).
MaxCalls == 2
\* Frames the peer delivers to the receive loop over one run.
MaxFrames == 1
\* Capacity of the caller-supplied done channel that several calls share.
SharedCap == 1

\* ------------------------------------------------------ program constants
\* make(chan *Call, 10) in Go when no channel is supplied.
DefaultDoneCap == 10
\* make(chan *Call, 1) in Call.
CallDoneCap == 1
\* seq: 1 in newClientCodec.
InitialSeq == 1

\* ------------------------------------------------------------ the threads
Callers == {"c1", "c2"}
Recv == "recv"
Threads == Callers \cup {Recv}
NoThread == "none"

\* Each caller goroutine submits one service method of its own.
MethodOf(t) == IF t = "c1" THEN "Foo.Sum" ELSE "Foo.Diff"

CallIds == 1..MaxCalls
\* Keys of the pending table and sequence numbers a header can carry; 0 is
\* never assigned by registerCall (the counter starts at InitialSeq).
SeqKeys == 0..(MaxCalls + 1)
\* Channel 0 is the shared caller-supplied channel; channel i > 0 is the
\* private channel made for call i (by Go with done == nil, or by Call).
SharedChan == 0
\* A caller-supplied channel of capacity 0, and the nil channel argument.
UnbufChan == MaxCalls + 1
NilChan == MaxCalls + 2
ChanIds == 0..(MaxCalls + 1)
NoCall == 0
\* ret when the step just taken returned nothing to a caller.
NoReturn == [op |-> "none", value |-> "none"]
Return(op, v) == [op |-> op, value |-> v]

VARIABLES
    closing,    \* Client.closing
    shutdown,   \* Client.shutdown
    seq,        \* Client.seq
    pending,    \* Client.pending: sequence key -> call id, NoCall = absent
    header,     \* Client.header, the shared outgoing header
    sending,    \* holder of Client.sending, NoThread = unlocked
    mu,         \* holder of Client.mu, NoThread = unlocked
    calls,      \* the Call records created so far, by call id
    ncalls,     \* number of Call records created
    chanBuf,    \* buffered contents of each done channel
    chanCap,    \* capacity of each done channel
    pc,         \* position of every goroutine
    cur,        \* the Call a caller goroutine is submitting
    scall,      \* send: the Call removeCall returned after a failed write
    ret,        \* the value the step just taken returned to its caller, if any
    h,          \* receive: the header read in this iteration
    rcall,      \* receive: the Call removeCall returned
    err,        \* receive: the loop variable err
    todo,       \* terminateCalls: pending keys the range loop has yet to visit
    conn,       \* transport: "open", or "down" once either end has closed it
    closeCount, \* number of cc.Close() calls made
    wire,       \* frames handed to cc.Write, in order, with their outcome
    nframes,    \* frames read by the receive loop so far
    resolvedBy  \* per call: the resolution paths that sent it on Done, in order

vars == <<closing, shutdown, seq, pending, header, sending, mu, calls, ncalls,
          chanBuf, chanCap, pc, cur, scall, ret, h, rcall, err, todo,
          conn, closeCount, wire, nframes, resolvedBy>>

\* ------------------------------------------------------------- data types
\* type Call struct (Seq unset = 0, Error nil = "nil", Reply untouched = 0).
NewCall(t, method, args, done, sync) ==
    [Seq |-> 0, ServiceMethod |-> method, Args |-> args, Reply |-> 0,
     Error |-> "nil", Done |-> done, owner |-> t, sync |-> sync]

NilCallRec ==
    [Seq |-> 0, ServiceMethod |-> "", Args |-> 0, Reply |-> 0,
     Error |-> "nil", Done |-> 0, owner |-> NoThread, sync |-> FALSE]

\* type Header struct
ZeroHeader == [ServiceMethod |-> "", Seq |-> 0, Error |-> ""]

\* ------------------------------------------------------------------- Init
\* The Client as newClientCodec leaves it, with the receive loop started.
Init ==
    /\ closing = FALSE
    /\ shutdown = FALSE
    /\ seq = InitialSeq
    /\ pending = [k \in SeqKeys |-> NoCall]
    /\ header = ZeroHeader
    /\ sending = NoThread
    /\ mu = NoThread
    /\ calls = [c \in CallIds |-> NilCallRec]
    /\ ncalls = 0
    /\ chanBuf = [ch \in ChanIds |-> << >>]
    /\ chanCap = [ch \in ChanIds |-> IF ch = SharedChan THEN SharedCap ELSE 0]
    /\ pc = [t \in Threads |-> IF t = Recv THEN "read_header" ELSE "idle"]
    /\ cur = [t \in Callers |-> NoCall]
    /\ scall = [t \in Callers |-> NoCall]
    /\ ret = NoReturn
    /\ h = ZeroHeader
    /\ rcall = NoCall
    /\ err = "nil"
    /\ todo = {}
    /\ conn = "open"
    /\ closeCount = 0
    /\ wire = << >>
    /\ nframes = 0
    /\ resolvedBy = [c \in CallIds |-> << >>]

\* ---------------------------------------------------------------- helpers
\* A buffered channel accepts a send without blocking while it has room.
ChanHasRoom(ch) == Len(chanBuf[ch]) < chanCap[ch]

\* func (call *Call) done(): call.Done <- call.  The send completes only
\* when the channel has room; it blocks while the channel is full.
CallDone(c, path) ==
    /\ ChanHasRoom(calls[c].Done)
    /\ chanBuf' = [chanBuf EXCEPT ![calls[c].Done] = Append(@, c)]
    /\ resolvedBy' = [resolvedBy EXCEPT ![c] = Append(@, path)]

\* return !client.shutdown && !client.closing
IsAvailableValue == ~shutdown /\ ~closing

\* A registerCall that checks closing alone.
RegisterRefusedWhenClosing == closing

\* if client.closing || client.shutdown { return 0, ErrShutdown }
RegisterRefused == closing \/ shutdown

\* A Close without its guard.
CloseNeverRefused == FALSE

\* A Close that is refused once either lifecycle flag is set.
CloseRefusedOnEitherFlag == closing \/ shutdown

\* if client.closing { return ErrShutdown }
CloseRefused == closing

\* A lookup that ignores the sequence number and takes the first entry.
PendingGetFirst(p, s) ==
    IF \E k \in SeqKeys : p[k] # NoCall
    THEN p[CHOOSE k \in SeqKeys :
               p[k] # NoCall /\ \A j \in SeqKeys : p[j] # NoCall => k <= j]
    ELSE NoCall

\* call := client.pending[seq]
PendingGet(p, s) == p[s]

\* A removeCall that forgets the delete.
PendingDeleteNothing(p, s) == p

\* A removeCall that empties the table.
PendingDeleteAll(p, s) == [k \in SeqKeys |-> NoCall]

\* delete(client.pending, seq)
PendingDelete(p, s) == [p EXCEPT ![s] = NoCall]

\* client.pending[call.Seq] = call
PendingPut(p, s, c) == [p EXCEPT ![s] = c]

\* A registerCall that forgets the increment.
NextSeqStuck(s) == s

\* client.seq++
NextSeq(s) == s + 1

\* A range loop that misses the entry with the smallest key.
PendingKeysButFirst(p) ==
    {k \in SeqKeys : p[k] # NoCall /\ \E j \in SeqKeys : j < k /\ p[j] # NoCall}

\* Keys present in the pending table (what range client.pending visits).
PendingKeys(p) == {k \in SeqKeys : p[k] # NoCall}

\* A send lock that excludes nobody.
SendingNeverHeld == TRUE

\* client.sending.Lock() returns only when no goroutine holds the send lock.
SendingLockable == sending = NoThread

\* The outgoing header as send fills it for call c.
FilledHeader(c) ==
    [ServiceMethod |-> calls[c].ServiceMethod, Seq |-> calls[c].Seq,
     Error |-> ""]

\* send returns (the deferred sending.Unlock() runs): Go hands the Call back
\* to its caller, Call goes on to block on the Call's Done channel.
SendReturn(t) ==
    /\ sending' = NoThread
    /\ IF calls[cur[t]].sync
       THEN /\ pc' = [pc EXCEPT ![t] = "call_wait"]
            /\ UNCHANGED cur
       ELSE /\ pc' = [pc EXCEPT ![t] = "idle"]
            /\ cur' = [cur EXCEPT ![t] = NoCall]

\* ------------------------------------------------------ caller goroutines
\* The done argument of Go: nil, the shared buffered channel, or a channel
\* of capacity 0.
DoneArgs == {NilChan, SharedChan, UnbufChan}

\* A Go without the capacity check.
GoNeverPanics(d) == FALSE

\* else if cap(done) == 0 { log.Panic(...) }
GoPanics(d) == d # NilChan /\ chanCap[d] = 0

\* Go, past the channel check: the Call is built with its Done channel and
\* handed to send, whose first statement is client.sending.Lock().  Building
\* the Call touches nothing shared, so the step is taken when the send lock
\* is free; until then the goroutine is blocked on it.
GoSubmit(t, c, ch, sync) ==
    /\ SendingLockable
    /\ sending' = t
    /\ ncalls' = c
    /\ calls' = [calls EXCEPT ![c] = NewCall(t, MethodOf(t), c, ch, sync)]
    /\ cur' = [cur EXCEPT ![t] = c]
    /\ ret' = NoReturn
    /\ pc' = [pc EXCEPT ![t] = "register"]

\* Client.Go(serviceMethod, args, reply, done): a nil done is replaced by a
\* new channel of capacity DefaultDoneCap; a supplied channel of capacity 0
\* panics before the Call is built.  log.Panic ends the whole process, so
\* every goroutine stops where it is.
Go(t, d) ==
    /\ pc[t] = "idle"
    /\ IF GoPanics(d)
       THEN /\ pc' = [x \in Threads |-> "panicked"]
            /\ ret' = Return("Go", "panic")
            /\ UNCHANGED <<calls, ncalls, chanCap, cur, sending>>
       ELSE /\ ncalls < MaxCalls
            /\ LET c == ncalls + 1 IN
                IF d = NilChan
                THEN /\ chanCap' = [chanCap EXCEPT ![c] = DefaultDoneCap]
                     /\ GoSubmit(t, c, c, FALSE)
                ELSE /\ UNCHANGED chanCap
                     /\ GoSubmit(t, c, d, FALSE)
    /\ UNCHANGED <<closing, shutdown, seq, pending, header, mu, chanBuf, h,
                   rcall, err, todo, conn, closeCount, wire, nframes,
                   resolvedBy>>
    /\ UNCHANGED scall

\* Client.Call: Go with a new private channel of capacity CallDoneCap; the
\* goroutine then blocks on that channel (CallWait).
Call(t) ==
    /\ pc[t] = "idle"
    /\ ncalls < MaxCalls
    /\ LET c == ncalls + 1 IN
        /\ chanCap' = [chanCap EXCEPT ![c] = CallDoneCap]
        /\ GoSubmit(t, c, c, TRUE)
    /\ UNCHANGED <<closing, shutdown, seq, pending, header, mu, chanBuf, h,
                   rcall, err, todo, conn, closeCount, wire, nframes,
                   resolvedBy>>
    /\ UNCHANGED scall

\* send: seq, err := client.registerCall(call).  registerCall runs under mu
\* and releases it on return: a refused call leaves the Call, the table and
\* the counter alone and returns ErrShutdown; otherwise the Call gets the
\* counter's value, enters the pending table and the counter advances.
RegisterCall(t) ==
    /\ pc[t] = "register"
    /\ mu = NoThread
    /\ IF RegisterRefused
       THEN /\ pc' = [pc EXCEPT ![t] = "refused"]
            /\ UNCHANGED <<calls, seq, pending>>
       ELSE /\ calls' = [calls EXCEPT ![cur[t]].Seq = seq]
            /\ pending' = PendingPut(pending, seq, cur[t])
            /\ seq' = NextSeq(seq)
            /\ pc' = [pc EXCEPT ![t] = "write"]
    /\ ret' = NoReturn
    /\ UNCHANGED <<closing, shutdown, header, sending, mu, ncalls, chanBuf,
                   chanCap, cur, h, rcall, err, todo, conn, closeCount, wire,
                   nframes, resolvedBy>>
    /\ UNCHANGED scall

\* send, registerCall has returned ErrShutdown and mu is free again:
\* call.Error = err; call.done(); return.  The Call is known to no other
\* goroutine yet, so setting its Error is part of the step that tries the
\* channel send: with room in the channel the Call is delivered and send
\* returns, with a full channel the goroutine blocks in done()
\* (ShutdownDone).
SendRefused(t) ==
    /\ pc[t] = "refused"
    /\ calls' = [calls EXCEPT ![cur[t]].Error = "ErrShutdown"]
    /\ IF ChanHasRoom(calls[cur[t]].Done)
       THEN /\ CallDone(cur[t], "shutdown")
            /\ SendReturn(t)
       ELSE /\ pc' = [pc EXCEPT ![t] = "shutdown_done"]
            /\ UNCHANGED <<chanBuf, resolvedBy, sending, cur>>
    /\ ret' = NoReturn
    /\ UNCHANGED <<closing, shutdown, seq, pending, header, mu, ncalls,
                   chanCap, h, rcall, err, todo, conn, closeCount, wire,
                   nframes>>
    /\ UNCHANGED scall

\* send, registration refused, blocked in call.done() on a full channel: the
\* send completes once the channel has room, then send returns.
ShutdownDone(t) ==
    /\ pc[t] = "shutdown_done"
    /\ CallDone(cur[t], "shutdown")
    /\ SendReturn(t)
    /\ ret' = NoReturn
    /\ UNCHANGED <<closing, shutdown, seq, pending, header, mu, calls, ncalls,
                   chanCap, h, rcall, err, todo, conn, closeCount, wire,
                   nframes>>
    /\ UNCHANGED scall

\* send: the header is filled and client.cc.Write(&client.header, call.Args)
\* is called; the codec reports success (send returns) or failure.
Write(t) ==
    /\ pc[t] = "write"
    /\ header' = FilledHeader(cur[t])
    /\ wire' = Append(wire, [Seq |-> header'.Seq,
                             ServiceMethod |-> header'.ServiceMethod,
                             Args |-> calls[cur[t]].Args])
    /\ \E ok \in BOOLEAN :
        IF ok
        THEN SendReturn(t)
        ELSE /\ pc' = [pc EXCEPT ![t] = "write_failed"]
             /\ UNCHANGED <<sending, cur>>
    /\ ret' = NoReturn
    /\ UNCHANGED <<closing, shutdown, seq, pending, mu, calls, ncalls, chanBuf,
                   chanCap, h, rcall, err, todo, conn, closeCount, nframes,
                   resolvedBy>>
    /\ UNCHANGED scall

\* send, write failed: call := client.removeCall(seq).  removeCall runs
\* under mu and releases it on return; its result is send's local call.
WriteFailedRemove(t) ==
    /\ pc[t] = "write_failed"
    /\ mu = NoThread
    /\ LET s == calls[cur[t]].Seq IN
        /\ scall' = [scall EXCEPT ![t] = PendingGet(pending, s)]
        /\ pending' = PendingDelete(pending, s)
    /\ pc' = [pc EXCEPT ![t] = "write_failed_call"]
    /\ ret' = NoReturn
    /\ UNCHANGED <<closing, shutdown, seq, header, sending, mu, calls, ncalls,
                   chanBuf, chanCap, cur, h, rcall, err, todo, conn,
                   closeCount, wire, nframes, resolvedBy>>

\* send, after removeCall, holding only the send lock: if call != nil
\* { call.Error = err; call.done() }.  A Call that was still in the table
\* gets the write error and is sent on its channel (delivered when the
\* channel has room, else the goroutine blocks in WriteFailedDone); with
\* call == nil send returns at once.
WriteFailedResolve(t) ==
    /\ pc[t] = "write_failed_call"
    /\ IF scall[t] = NoCall
       THEN /\ SendReturn(t)
            /\ UNCHANGED <<calls, chanBuf, resolvedBy, scall>>
       ELSE /\ calls' = [calls EXCEPT ![scall[t]].Error = "write"]
            /\ IF ChanHasRoom(calls[scall[t]].Done)
               THEN /\ CallDone(scall[t], "write")
                    /\ SendReturn(t)
                    /\ scall' = [scall EXCEPT ![t] = NoCall]
               ELSE /\ pc' = [pc EXCEPT ![t] = "write_failed_done"]
                    /\ UNCHANGED <<chanBuf, resolvedBy, sending, cur, scall>>
    /\ ret' = NoReturn
    /\ UNCHANGED <<closing, shutdown, seq, pending, header, mu, ncalls,
                   chanCap, h, rcall, err, todo, conn, closeCount, wire,
                   nframes>>

\* send, write failed, blocked in call.done() on a full channel.
WriteFailedDone(t) ==
    /\ pc[t] = "write_failed_done"
    /\ CallDone(scall[t], "write")
    /\ SendReturn(t)
    /\ scall' = [scall EXCEPT ![t] = NoCall]
    /\ ret' = NoReturn
    /\ UNCHANGED <<closing, shutdown, seq, pending, header, mu, calls, ncalls,
                   chanCap, h, rcall, err, todo, conn, closeCount, wire,
                   nframes>>

\* Call: call := <-client.Go(...).Done; return call.Error
CallWait(t) ==
    /\ pc[t] = "call_wait"
    /\ chanBuf[calls[cur[t]].Done] # << >>
    /\ LET ch == calls[cur[t]].Done IN
        /\ ret' = Return("Call", calls[Head(chanBuf[ch])].Error)
        /\ chanBuf' = [chanBuf EXCEPT ![ch] = Tail(@)]
    /\ pc' = [pc EXCEPT ![t] = "idle"]
    /\ cur' = [cur EXCEPT ![t] = NoCall]
    /\ UNCHANGED <<closing, shutdown, seq, pending, header, sending, mu, calls,
                   ncalls, chanCap, h, rcall, err, todo, conn, closeCount,
                   wire, nframes, resolvedBy>>
    /\ UNCHANGED scall

\* A caller goroutine that is not inside a Client operation receives one of
\* its resolved Calls from the done channel it handed to Go.
Drain(t, ch) ==
    /\ pc[t] = "idle"
    /\ chanBuf[ch] # << >>
    /\ calls[Head(chanBuf[ch])].owner = t
    /\ chanBuf' = [chanBuf EXCEPT ![ch] = Tail(@)]
    /\ ret' = NoReturn
    /\ UNCHANGED <<closing, shutdown, seq, pending, header, sending, mu, calls,
                   ncalls, chanCap, pc, cur, h, rcall, err, todo, conn,
                   closeCount, wire, nframes, resolvedBy>>
    /\ UNCHANGED scall

\* Close: mu.Lock(); the guard; client.closing = true.  A refused Close
\* returns ErrShutdown (the deferred mu.Unlock() runs); otherwise the
\* goroutine goes on to cc.Close() with mu held.  The step is taken when mu
\* is free; until then the goroutine is blocked on it.
CloseEnter(t) ==
    /\ pc[t] = "idle"
    /\ mu = NoThread
    /\ IF CloseRefused
       THEN /\ ret' = Return("Close", "ErrShutdown")
            /\ UNCHANGED <<closing, mu, pc>>
       ELSE /\ closing' = TRUE
            /\ mu' = t
            /\ pc' = [pc EXCEPT ![t] = "close_io"]
            /\ ret' = NoReturn
    /\ UNCHANGED <<shutdown, seq, pending, header, sending, calls, ncalls,
                   chanBuf, chanCap, cur, h, rcall, err, todo, conn,
                   closeCount, wire, nframes, resolvedBy>>
    /\ UNCHANGED scall

\* Close: return client.cc.Close(), with mu held until the return.  Close
\* returns whatever the codec returned ("codecResult": nil or the codec's
\* own error).
CloseCodec(t) ==
    /\ pc[t] = "close_io"
    /\ conn' = "down"
    /\ closeCount' = closeCount + 1
    /\ ret' = Return("Close", "codecResult")
    /\ mu' = NoThread
    /\ pc' = [pc EXCEPT ![t] = "idle"]
    /\ UNCHANGED <<closing, shutdown, seq, pending, header, sending, calls,
                   ncalls, chanBuf, chanCap, cur, h, rcall, err, todo, wire,
                   nframes, resolvedBy>>
    /\ UNCHANGED scall

\* IsAvailable: the flags are read under mu; the step is taken when mu is
\* free.
IsAvailable(t) ==
    /\ pc[t] = "idle"
    /\ mu = NoThread
    /\ ret' = Return("IsAvailable", IF IsAvailableValue THEN "true" ELSE "false")
    /\ UNCHANGED <<closing, shutdown, seq, pending, header, sending, mu, calls,
                   ncalls, chanBuf, chanCap, pc, cur, h, rcall, err, todo,
                   conn, closeCount, wire, nframes, resolvedBy>>
    /\ UNCHANGED scall

\* ------------------------------------------------------- the receive loop
\* Sequence numbers a frame from the peer can carry: those of calls that are
\* pending, already answered, or not registered at all.
FrameSeqs == 1..MaxCalls

\* A receive loop that goes on reading whatever a read returned.
LoopNeverLeaves(e) == "read_header"

\* The position after one iteration, or after the break on a failed
\* ReadHeader: for err == nil { ... }, then client.terminateCalls(err).
LoopNext(e) == IF e = "nil" THEN "read_header" ELSE "term_lock"

\* cc.ReadHeader returns an error once the transport is down.
ReadHeaderFails == conn # "open"

\* receive: err = client.cc.ReadHeader(&h).  The read fails once the
\* transport is down (closed by the peer or by cc.Close()) and the loop is
\* left for terminateCalls; otherwise it blocks until the peer delivers a
\* frame.
ReadHeader ==
    /\ pc[Recv] = "read_header"
    /\ IF ReadHeaderFails
       THEN /\ err' = "EOF"
            /\ pc' = [pc EXCEPT ![Recv] = LoopNext(err')]
            /\ UNCHANGED <<h, nframes>>
       ELSE /\ nframes < MaxFrames
            /\ nframes' = nframes + 1
            /\ \E s \in FrameSeqs, e \in {"", "remote"} :
                  h' = [ServiceMethod |-> "", Seq |-> s, Error |-> e]
            /\ pc' = [pc EXCEPT ![Recv] = "dispatch"]
            /\ UNCHANGED err
    /\ ret' = NoReturn
    /\ UNCHANGED <<closing, shutdown, seq, pending, header, sending, mu, calls,
                   ncalls, chanBuf, chanCap, cur, rcall, todo, conn,
                   closeCount, wire, resolvedBy>>
    /\ UNCHANGED scall

\* The Call fields the switch in receive leaves for call c, given the header
\* and whether ReadBody succeeded: an error header sets call.Error from it,
\* a decoded body fills call.Reply with the reply the frame carries (named
\* by the sequence number it is addressed to), a failed decode sets the
\* wrapped error.
ReceiveFill(cs, c, hd, ok) ==
    IF hd.Error # ""
    THEN [cs EXCEPT ![c].Error = hd.Error]
    ELSE IF ok
         THEN [cs EXCEPT ![c].Reply = hd.Seq]
         ELSE [cs EXCEPT ![c].Error = "readbody"]

\* receive: call := client.removeCall(h.Seq).  removeCall runs under mu and
\* releases it on return.
Dispatch ==
    /\ pc[Recv] = "dispatch"
    /\ mu = NoThread
    /\ rcall' = PendingGet(pending, h.Seq)
    /\ pending' = PendingDelete(pending, h.Seq)
    /\ pc' = [pc EXCEPT ![Recv] = "read_body"]
    /\ ret' = NoReturn
    /\ UNCHANGED <<closing, shutdown, seq, header, sending, mu, calls, ncalls,
                   chanBuf, chanCap, cur, h, err, todo, conn, closeCount,
                   wire, nframes, resolvedBy>>
    /\ UNCHANGED scall

\* receive, the switch: err = client.cc.ReadBody(...) in every branch, with
\* no lock held; the read returns when the peer has sent the body or the
\* transport fails.  The Call removeCall returned is out of the table and not
\* yet delivered, so the fields the branch sets (call.Error from the header
\* or from a failed decode, call.Reply by the decode) are written in this
\* step.  With a Call the goroutine goes on to call.done(); without one the
\* iteration ends and its locals h and call go out of scope.
ReadBodyReturns(outcomes) ==
    /\ pc[Recv] = "read_body"
    /\ \E ok \in outcomes :
        /\ err' = IF ok THEN "nil" ELSE "bodyErr"
        /\ IF rcall = NoCall
           THEN /\ pc' = [pc EXCEPT ![Recv] = LoopNext(err')]
                /\ h' = ZeroHeader
                /\ UNCHANGED calls
           ELSE /\ calls' = ReceiveFill(calls, rcall, h, ok)
                /\ pc' = [pc EXCEPT ![Recv] = "reply_done"]
                /\ UNCHANGED h
    /\ ret' = NoReturn
    /\ UNCHANGED <<closing, shutdown, seq, pending, header, sending, mu,
                   ncalls, chanBuf, chanCap, cur, rcall, todo, conn,
                   closeCount, wire, nframes, resolvedBy>>
    /\ UNCHANGED scall

\* The codec decides whether the read succeeds.
ReadBody == ReadBodyReturns(BOOLEAN)

\* The same step with a codec on which every read made after cc.Close() has
\* run fails.
ReadBodyFailsOnceClosed ==
    ReadBodyReturns(IF closeCount > 0 THEN {FALSE} ELSE BOOLEAN)

\* receive: call.done().  The send completes when the channel has room and
\* the iteration ends; on a full channel the goroutine blocks here.
ReplyDone ==
    /\ pc[Recv] = "reply_done"
    /\ CallDone(rcall, "reply")
    /\ pc' = [pc EXCEPT ![Recv] = LoopNext(err)]
    /\ h' = ZeroHeader
    /\ rcall' = NoCall
    /\ ret' = NoReturn
    /\ UNCHANGED <<closing, shutdown, seq, pending, header, sending, mu, calls,
                   ncalls, chanCap, cur, err, todo, conn, closeCount, wire,
                   nframes>>
    /\ UNCHANGED scall

\* terminateCalls: client.sending.Lock()
TerminateLockSending ==
    /\ pc[Recv] = "term_lock"
    /\ SendingLockable
    /\ sending' = Recv
    /\ pc' = [pc EXCEPT ![Recv] = "term_mu"]
    /\ ret' = NoReturn
    /\ UNCHANGED <<closing, shutdown, seq, pending, header, mu, calls, ncalls,
                   chanBuf, chanCap, cur, h, rcall, err, todo, conn,
                   closeCount, wire, nframes, resolvedBy>>
    /\ UNCHANGED scall

\* terminateCalls: client.mu.Lock(); client.shutdown = true; the range over
\* client.pending starts.
TerminateLockMu ==
    /\ pc[Recv] = "term_mu"
    /\ mu = NoThread
    /\ mu' = Recv
    /\ shutdown' = TRUE
    /\ todo' = PendingKeys(pending)
    /\ pc' = [pc EXCEPT ![Recv] = "term_range"]
    /\ ret' = NoReturn
    /\ UNCHANGED <<closing, seq, pending, header, sending, calls, ncalls,
                   chanBuf, chanCap, cur, h, rcall, err, conn, closeCount,
                   wire, nframes, resolvedBy>>
    /\ UNCHANGED scall

\* terminateCalls: one iteration of the range loop takes an entry not yet
\* visited, in any order, sets call.Error = err and calls call.done()
\* (delivered when the channel has room, else the goroutine blocks in
\* TerminateDone with both locks held).
TerminateVisit ==
    /\ pc[Recv] = "term_range"
    /\ todo # {}
    /\ \E k \in todo :
        LET c == pending[k] IN
        /\ calls' = [calls EXCEPT ![c].Error = err]
        /\ todo' = todo \ {k}
        /\ IF ChanHasRoom(calls[c].Done)
           THEN /\ CallDone(c, "terminate")
                /\ UNCHANGED <<pc, rcall>>
           ELSE /\ pc' = [pc EXCEPT ![Recv] = "term_done"]
                /\ rcall' = c
                /\ UNCHANGED <<chanBuf, resolvedBy>>
    /\ ret' = NoReturn
    /\ UNCHANGED <<closing, shutdown, seq, pending, header, sending, mu,
                   ncalls, chanCap, cur, h, err, conn, closeCount, wire,
                   nframes>>
    /\ UNCHANGED scall

\* terminateCalls, blocked in call.done() on a full channel, both locks held.
TerminateDone ==
    /\ pc[Recv] = "term_done"
    /\ CallDone(rcall, "terminate")
    /\ pc' = [pc EXCEPT ![Recv] = "term_range"]
    /\ rcall' = NoCall
    /\ ret' = NoReturn
    /\ UNCHANGED <<closing, shutdown, seq, pending, header, sending, mu, calls,
                   ncalls, chanCap, cur, h, err, todo, conn, closeCount, wire,
                   nframes>>
    /\ UNCHANGED scall

\* The pending table as terminateCalls leaves it: the range loop resolves
\* the entries and deletes none.
PendingAfterTerminate(p) == p

\* terminateCalls returns once the range is exhausted; its deferred calls
\* run last in, first out: client.mu.Unlock() first.
TerminateUnlockMu ==
    /\ pc[Recv] = "term_range"
    /\ todo = {}
    /\ pending' = PendingAfterTerminate(pending)
    /\ mu' = NoThread
    /\ pc' = [pc EXCEPT ![Recv] = "term_unlock"]
    /\ ret' = NoReturn
    /\ UNCHANGED <<closing, shutdown, seq, header, sending, calls, ncalls,
                   chanBuf, chanCap, cur, h, rcall, err, todo, conn,
                   closeCount, wire, nframes, resolvedBy>>
    /\ UNCHANGED scall

\* terminateCalls: the deferred client.sending.Unlock() runs and the receive
\* goroutine ends.
TerminateReturn ==
    /\ pc[Recv] = "term_unlock"
    /\ sending' = NoThread
    /\ pc' = [pc EXCEPT ![Recv] = "done"]
    /\ ret' = NoReturn
    /\ UNCHANGED <<closing, shutdown, seq, pending, header, mu, calls, ncalls,
                   chanBuf, chanCap, cur, h, rcall, err, todo, conn,
                   closeCount, wire, nframes, resolvedBy>>
    /\ UNCHANGED scall

\* ------------------------------------------------------------ environment
\* The peer closes the connection.
PeerClose ==
    /\ pc[Recv] # "panicked"
    /\ conn = "open"
    /\ conn' = "down"
    /\ ret' = NoReturn
    /\ UNCHANGED <<closing, shutdown, seq, pending, header, sending, mu, calls,
                   ncalls, chanBuf, chanCap, pc, cur, h, rcall, err, todo,
                   closeCount, wire, nframes, resolvedBy>>
    /\ UNCHANGED scall

\* ------------------------------------------------------ the specification
CallerStep(t) ==
    \/ \E d \in DoneArgs : Go(t, d)
    \/ Call(t)
    \/ RegisterCall(t)
    \/ SendRefused(t)
    \/ ShutdownDone(t)
    \/ Write(t)
    \/ WriteFailedRemove(t)
    \/ WriteFailedResolve(t)
    \/ WriteFailedDone(t)
    \/ CallWait(t)
    \/ \E ch \in ChanIds : Drain(t, ch)
    \/ CloseEnter(t)
    \/ CloseCodec(t)
    \/ IsAvailable(t)

ReceiveStep ==
    \/ ReadHeader
    \/ Dispatch
    \/ ReadBody
    \/ ReplyDone
    \/ TerminateLockSending
    \/ TerminateLockMu
    \/ TerminateVisit
    \/ TerminateDone
    \/ TerminateUnlockMu
    \/ TerminateReturn

Next ==
    \/ \E t \in Callers : CallerStep(t)
    \/ ReceiveStep
    \/ PeerClose

Spec == Init /\ [][Next]_vars

\* Fairness: the Go scheduler runs every goroutine that can take a step
\* inside the Client's code (the receive loop once its read can return, and
\* a caller goroutine that is inside send or Close).  Whether the application starts another operation
\* or receives from a done channel is its own choice and is not assumed.
InsideStep(t) ==
    \/ RegisterCall(t)
    \/ SendRefused(t)
    \/ ShutdownDone(t)
    \/ Write(t)
    \/ WriteFailedRemove(t)
    \/ WriteFailedResolve(t)
    \/ WriteFailedDone(t)
    \/ CallWait(t)
    \/ CloseCodec(t)

\* A read on an open transport returns when the peer sends, which the peer
\* may never do; every other step of the receive goroutine is its own.
ReceiveProgress ==
    /\ ReceiveStep
    /\ pc[Recv] \in {"read_header", "read_body"} => conn # "open"

FairSpec ==
    /\ Spec
    /\ WF_vars(ReceiveProgress)
    /\ \A t \in Callers : WF_vars(InsideStep(t))

\* The same program with a codec whose Close makes every later read fail:
\* ReadHeader fails once the transport is down, and so does a ReadBody that
\* is made after cc.Close().
ReceiveStepOnceClosed ==
    \/ ReadHeader
    \/ Dispatch
    \/ ReadBodyFailsOnceClosed
    \/ ReplyDone
    \/ TerminateLockSending
    \/ TerminateLockMu
    \/ TerminateVisit
    \/ TerminateDone
    \/ TerminateUnlockMu
    \/ TerminateReturn

NextOnceClosed ==
    \/ \E t \in Callers : CallerStep(t)
    \/ ReceiveStepOnceClosed
    \/ PeerClose

ReceiveProgressOnceClosed ==
    /\ ReceiveStepOnceClosed
    /\ pc[Recv] \in {"read_header", "read_body"} => conn # "open"

CloseFairSpec ==
    /\ Init /\ [][NextOnceClosed]_vars
    /\ WF_vars(ReceiveProgressOnceClosed)
    /\ \A t \in Callers : WF_vars(InsideStep(t))

\* ------------------------------------------------------- derived notions
\* The calls created so far, and those registerCall has accepted.
Created == 1..ncalls
Registered == {c \in Created : calls[c].Seq # 0}
\* A call is resolved once it has been sent on its Done channel.
Resolved(c) == resolvedBy[c] # << >>

\* Goroutines that hold call c for delivery: they took it out of the pending
\* table, or were refused registration for it, and have not yet completed
\* call.done().
HeldForDelivery(c) ==
    {t \in Callers : \/ pc[t] \in {"refused", "shutdown_done"} /\ cur[t] = c
                     \/ pc[t] \in {"write_failed_call", "write_failed_done"}
                           /\ scall[t] = c}
    \cup {t \in {Recv} : pc[t] \in {"read_body", "reply_done", "term_done"}
                          /\ rcall = c}

\* ------------------------------------------------------------------ claims
\* C1: every Call is sent on its Done channel at most once, and the
\* resolution paths exclude each other: counting the deliveries made and the
\* goroutines that hold the Call on its way to done(), no Call is ever
\* claimed by more than one path.
C1_ExactlyOnce ==
    \A c \in CallIds : Len(resolvedBy[c]) + Cardinality(HeldForDelivery(c)) <= 1

\* C1 witness: the race the claim is about: a sender whose write failed is
\* about to call removeCall for a Call the receive loop has already resolved.
C1_Witness ==
    \E t \in Callers :
        /\ pc[t] = "write_failed"
        /\ resolvedBy[cur[t]] = <<"reply">>

\* C2: once the receive loop has ended (terminateCalls has returned) with
\* cause err, every registered Call is resolved, and every Call that
\* terminateCalls resolved carries Error = err, which is not nil.
C2_TerminationDrainsAll ==
    pc[Recv] = "done" =>
        /\ err # "nil"
        /\ \A c \in Registered :
            /\ Len(resolvedBy[c]) = 1
            /\ resolvedBy[c] = <<"terminate">> => calls[c].Error = err

\* C2 witness: the loop has ended with two Calls drained by terminateCalls.
C2_Witness ==
    /\ pc[Recv] = "done"
    /\ Cardinality({c \in Created : resolvedBy[c] = <<"terminate">>}) = 2

\* C3: the receive loop handles a frame with the Call registered under the
\* frame's sequence number and no other: removeCall returns only that Call,
\* the steps of the iteration change only that Call, and when the frame has
\* an empty error and its body decodes, the Call's Reply is the reply
\* addressed to that sequence number and its Error stays nil.
C3_Demux ==
    [][ /\ (pc[Recv] = "dispatch" /\ pc'[Recv] = "read_body" /\ rcall' # NoCall)
              => calls[rcall'].Seq = h.Seq
        /\ (pc[Recv] \in {"dispatch", "read_body", "reply_done"}
               /\ pc'[Recv] # pc[Recv] /\ pc'[Recv] # "panicked") =>
              \A c \in CallIds :
                  (calls'[c] # calls[c] \/ resolvedBy'[c] # resolvedBy[c]) =>
                      /\ c = rcall
                      /\ calls[c].Seq = h.Seq
        /\ (pc[Recv] = "read_body" /\ pc'[Recv] = "reply_done"
               /\ h.Error = "" /\ err' = "nil") =>
              /\ calls'[rcall].Reply = h.Seq
              /\ calls'[rcall].Error = "nil" ]_vars

\* C3 witness: two Calls were outstanding and the later one was answered
\* first: it holds its own reply while the earlier one is still pending.
C3_Witness ==
    \E c, d \in Registered :
        /\ calls[c].Seq < calls[d].Seq
        /\ pending[calls[c].Seq] = c
        /\ resolvedBy[d] = <<"reply">>
        /\ calls[d].Reply = calls[d].Seq
        /\ calls[d].Error = "nil"

\* C4: the sequence numbers of registered Calls are 1, 2, ... without gap or
\* repeat, strictly increasing in registration order (the order in which
\* the senders took the send lock, which is the order of call ids), and
\* every key of the pending table is the Seq of the Call stored under it.
C4_SeqUnique ==
    /\ \A c, d \in Registered : c < d => calls[c].Seq < calls[d].Seq
    /\ {calls[c].Seq : c \in Registered} = 1..(seq - 1)
    /\ \A k \in SeqKeys : pending[k] # NoCall => calls[pending[k]].Seq = k

\* C4 witness: two Calls submitted by different goroutines are both pending
\* under sequence numbers 1 and 2.
C4_Witness ==
    \E c, d \in Registered :
        /\ calls[c].owner # calls[d].owner
        /\ calls[c].Seq = 1 /\ pending[1] = c
        /\ calls[d].Seq = 2 /\ pending[2] = d

\* C5: a submission that reaches registerCall once closing or shutdown is set
\* is refused: it gets no sequence number, leaves the pending table and the
\* counter alone and writes nothing, and send then gives it Error =
\* ErrShutdown and hands it to done(); a Call refused this way is never in
\* the table nor on the wire and is resolved by no other path; and the two
\* flags are never reset.
C5_RejectedOnceUnavailable ==
    /\ [][ \A t \in Callers :
             /\ (pc[t] = "register" /\ pc'[t] \notin {"register", "panicked"}
                   /\ (closing \/ shutdown)) =>
                   /\ pc'[t] = "refused"
                   /\ calls' = calls
                   /\ pending' = pending
                   /\ seq' = seq
                   /\ wire' = wire
             /\ (pc[t] = "refused" /\ pc'[t] \notin {"refused", "panicked"}) =>
                   /\ calls'[cur[t]].Error = "ErrShutdown"
                   /\ calls'[cur[t]].Seq = 0
                   /\ pending' = pending /\ seq' = seq /\ wire' = wire
                   /\ pc'[t] \in {"idle", "call_wait", "shutdown_done"} ]_vars
    /\ [](\A t \in Callers :
             pc[t] \in {"refused", "shutdown_done"} =>
                 /\ calls[cur[t]].Seq = 0
                 /\ \A k \in SeqKeys : pending[k] # cur[t]
                 /\ resolvedBy[cur[t]] = << >>)
    /\ [](\A c \in Created :
             calls[c].Error = "ErrShutdown" =>
                 /\ \A k \in SeqKeys : pending[k] # c
                 /\ \A i \in 1..Len(wire) : wire[i].Args # c
                 /\ resolvedBy[c] \in {<< >>, <<"shutdown">>})
    /\ [][ (closing => closing') /\ (shutdown => shutdown') ]_vars

\* C5 witness: a Call was resolved with ErrShutdown after the receive loop
\* had set shutdown, Close never having been called.
C5_Witness ==
    /\ shutdown /\ ~closing
    /\ \E c \in Created :
        /\ resolvedBy[c] = <<"shutdown">>
        /\ calls[c].Error = "ErrShutdown"

\* A step of some Close call, seen from outside: it enters the codec close,
\* leaves it, or returns.
CloseObserved ==
    \/ ret'.op = "Close"
    \/ \E t \in Callers : pc[t] = "idle" /\ pc'[t] = "close_io"

\* C6: the codec is closed at most once, and only by a Close that found
\* closing unset and set it; a Close that finds closing set returns
\* ErrShutdown and touches neither the codec nor the transport; and no step
\* of Close changes the pending table, any Call or any done channel.
C6_CloseGuarded ==
    /\ [](closeCount <= 1 /\ (closeCount = 1 => closing))
    /\ [][ \A t \in Callers :
             /\ (pc[t] = "idle" /\ pc'[t] = "close_io") => (~closing /\ closing')
             /\ (CloseEnter(t) /\ closing) =>
                    /\ ret' = Return("Close", "ErrShutdown")
                    /\ closeCount' = closeCount
                    /\ conn' = conn ]_vars
    /\ [][ CloseObserved =>
             /\ pending' = pending
             /\ calls' = calls
             /\ resolvedBy' = resolvedBy
             /\ chanBuf' = chanBuf ]_vars

\* C6 witness: a second Close has just returned ErrShutdown, the codec was
\* closed once, and a Call is still pending and unresolved.
C6_Witness ==
    /\ ret = Return("Close", "ErrShutdown")
    /\ closeCount = 1
    /\ \E c \in Registered : pending[calls[c].Seq] = c /\ ~Resolved(c)

\* A Call that has been registered and written and is still unanswered.
Outstanding(c) ==
    /\ c \in Registered
    /\ pending[calls[c].Seq] = c
    /\ \E i \in 1..Len(wire) : wire[i].Args = c
    /\ \A t \in Callers : cur[t] = c => pc[t] = "call_wait"

\* C7, as claimed: once the peer has closed the connection with a Call
\* outstanding and the receive loop about to read the next header, that Call
\* is eventually resolved with a non-nil error (unless a misuse of Go has
\* ended the process in the meantime); IsAvailable returns true
\* exactly when neither flag is set; and a Call resolved by terminateCalls
\* is only ever seen with shutdown set.
C7_PeerCloseResolves ==
    /\ \A c \in CallIds :
          (Outstanding(c) /\ conn = "down" /\ closeCount = 0
              /\ pc[Recv] = "read_header")
          ~> \/ Resolved(c) /\ calls[c].Error # "nil"
             \/ pc[Recv] = "panicked"
    /\ [](ret.op = "IsAvailable" => (ret.value = "true" <=> ~closing /\ ~shutdown))
    /\ [](\A c \in Created : resolvedBy[c] = <<"terminate">> => shutdown)

\* C8, as claimed: a Close that finds either lifecycle flag set returns
\* ErrShutdown.
C8_CloseRefusedOnEitherFlag ==
    [][ \A t \in Callers :
          (CloseEnter(t) /\ (closing \/ shutdown)) =>
              ret' = Return("Close", "ErrShutdown") ]_vars

\* C8, amended: Close returns ErrShutdown exactly when closing is already
\* set; with closing unset (shutdown set or not) it sets closing, closes the
\* codec and returns the codec's result; a submission is refused with
\* ErrShutdown once either flag is set.
C8_CloseRefusedOnClosingOnly ==
    [][ \A t \in Callers :
          /\ CloseEnter(t) =>
                IF closing
                THEN ret' = Return("Close", "ErrShutdown")
                ELSE closing' /\ pc'[t] = "close_io" /\ ret' = NoReturn
          /\ CloseCodec(t) =>
                ret' = Return("Close", "codecResult") /\ closeCount' = closeCount + 1
          /\ (RegisterCall(t) /\ (closing \/ shutdown)) => pc'[t] = "refused"
          /\ SendRefused(t) => calls'[cur[t]].Error = "ErrShutdown" ]_vars

\* C8 witness: a Close called after the receive loop had set shutdown has
\* closed the codec and returned the codec's result.
C8_Witness ==
    /\ ret = Return("Close", "codecResult")
    /\ shutdown
    /\ closeCount = 1

\* C9, as claimed: no caller goroutine is ever held inside send by the
\* delivery of a resolution to a done channel of capacity >= 1.
C9_GoNeverWaitsOnDone ==
    \A t \in Callers :
        pc[t] \in {"shutdown_done", "write_failed_done"} =>
            chanCap[calls[cur[t]].Done] = 0

\* C10: no Call is ever built on a channel of capacity 0, a Call built by Go
\* without a channel has a channel of capacity 10, and a Go that is handed a
\* channel of capacity 0 panics leaving the Calls, the pending table, the
\* counter, the wire and the send lock as they were.
C10_MisuseGuard ==
    /\ [](\A c \in Created :
             /\ calls[c].Done # UnbufChan
             /\ chanCap[calls[c].Done] >= 1
             /\ (calls[c].Done = c /\ ~calls[c].sync) => chanCap[c] = 10)
    /\ [][ \A t \in Callers :
             Go(t, UnbufChan) =>
                 /\ pc'[t] = "panicked"
                 /\ calls' = calls /\ ncalls' = ncalls
                 /\ pending' = pending /\ seq' = seq
                 /\ wire' = wire /\ sending' = sending ]_vars

\* C10 witness: Go has just panicked on a channel of capacity 0 while a Call
\* made by Go without a channel (capacity 10) is pending.
C10_Witness ==
    /\ ret = Return("Go", "panic")
    /\ \E c \in Registered :
        /\ pending[calls[c].Seq] = c
        /\ calls[c].Done = c /\ ~calls[c].sync
        /\ chanCap[c] = 10

\* C11, as claimed: no Call that has been sent on its Done channel is still
\* a value of the pending table.
C11_RemovedBeforeResolved ==
    \A c \in Created : Resolved(c) => \A k \in SeqKeys : pending[k] # c

\* C12, as claimed: once terminateCalls has returned the pending table is
\* empty.
C12_PendingEmptyAfterTerminate ==
    pc[Recv] = "done" => \A k \in SeqKeys : pending[k] = NoCall

\* C13, as claimed: the receive loop leaves its loop for terminateCalls only
\* with the error of a failed ReadHeader, and an iteration whose ReadBody
\* failed goes on to read the next header (or is still delivering its Call).
C13_HeaderFailureSoleTrigger ==
    /\ pc[Recv] \in {"term_lock", "term_mu", "term_range", "term_done", "done"}
          => err = "EOF"
    /\ shutdown => err = "EOF"

\* C14: the frames handed to the codec carry strictly increasing sequence
\* numbers, each frame's header carries the Seq and ServiceMethod of the Call
\* whose Args are its body, at most one goroutine is at cc.Write at a time,
\* and a goroutine between registerCall and the end of send holds the send
\* lock.
C14_WireOrder ==
    /\ \A i, j \in 1..Len(wire) : i < j => wire[i].Seq < wire[j].Seq
    /\ \A i \in 1..Len(wire) :
          /\ wire[i].Args \in Registered
          /\ wire[i].Seq = calls[wire[i].Args].Seq
          /\ wire[i].ServiceMethod = calls[wire[i].Args].ServiceMethod
    /\ Cardinality({t \in Callers : pc[t] = "write"}) <= 1
    /\ \A t \in Callers :
          pc[t] \in {"register", "refused", "write", "write_failed",
                     "write_failed_call"} => sending = t
    /\ \A t \in Callers :
          pc[t] \in {"write_failed", "write_failed_call", "write_failed_done"} =>
              header = FilledHeader(cur[t])

\* C14 witness: two goroutines have sent concurrently: the wire holds two
\* frames for different service methods, in sequence order, and both Calls
\* are still pending.
C14_Witness ==
    /\ Len(wire) = 2
    /\ wire[1].ServiceMethod # wire[2].ServiceMethod
    /\ wire[1].Seq = 1 /\ wire[2].Seq = 2
    /\ pending[1] = wire[1].Args /\ pending[2] = wire[2].Args

\* C15: handling a failed write, send removes the Call's own sequence number
\* from the pending table and no other and changes nothing else; then, if
\* the Call was still in the table, it gives that Call the write error and
\* hands it to done() (delivered, or the goroutine is inside done()), and if
\* the receive loop had already removed it no Call and no channel changes;
\* every other Call, the rest of the table and both lifecycle flags stay as
\* they were.
C15_WriteFailureLocal ==
    [][ \A t \in Callers :
          LET c == cur[t]
              s == calls[c].Seq IN
          /\ (pc[t] = "write_failed" /\ pc'[t] \notin {"write_failed", "panicked"}) =>
              /\ closing' = closing /\ shutdown' = shutdown
              /\ pending'[s] = NoCall
              /\ \A k \in SeqKeys \ {s} : pending'[k] = pending[k]
              /\ pending[s] \in {c, NoCall}
              /\ scall'[t] = pending[s]
              /\ calls' = calls /\ resolvedBy' = resolvedBy /\ chanBuf' = chanBuf
          /\ (pc[t] = "write_failed_call"
                /\ pc'[t] \notin {"write_failed_call", "panicked"}) =>
              /\ closing' = closing /\ shutdown' = shutdown
              /\ pending' = pending
              /\ \A d \in CallIds \ {c} :
                    calls'[d] = calls[d] /\ resolvedBy'[d] = resolvedBy[d]
              /\ IF scall[t] = c
                 THEN /\ calls'[c] = [calls[c] EXCEPT !.Error = "write"]
                      /\ \/ resolvedBy'[c] = Append(resolvedBy[c], "write")
                         \/ pc'[t] = "write_failed_done"
                 ELSE /\ calls' = calls
                      /\ resolvedBy' = resolvedBy
                      /\ chanBuf' = chanBuf ]_vars

\* C15 witness: one Call has been resolved with the write error while
\* another Call is still pending and unresolved and the Client is still
\* available.
C15_Witness ==
    /\ ~closing /\ ~shutdown
    /\ \E c, d \in Registered :
        /\ resolvedBy[c] = <<"write">>
        /\ calls[c].Error = "write"
        /\ pending[calls[c].Seq] = NoCall
        /\ pending[calls[d].Seq] = d
        /\ ~Resolved(d)
        /\ calls[d].Error = "nil"

\* C16, as claimed: removeCall for an absent sequence number returns no Call
\* and leaves the table as it is, and an iteration of the receive loop whose
\* header names an absent sequence number changes no Call, resolves none and
\* goes on to read the next header.
C16_StrayFrameHarmless ==
    [][ /\ (pc[Recv] = "dispatch" /\ pc'[Recv] = "read_body"
             /\ pending[h.Seq] = NoCall) =>
              /\ pending' = pending
              /\ rcall' = NoCall
        /\ (pc[Recv] = "read_body" /\ pc'[Recv] \notin {"read_body", "panicked"}
             /\ rcall = NoCall) =>
              /\ pending' = pending
              /\ calls' = calls
              /\ resolvedBy' = resolvedBy
              /\ chanBuf' = chanBuf
              /\ pc'[Recv] = "read_header"
        /\ \A t \in Callers :
              /\ (pc[t] = "write_failed" /\ pc'[t] = "write_failed_call"
                    /\ pending[calls[cur[t]].Seq] = NoCall) =>
                    /\ pending' = pending
                    /\ scall'[t] = NoCall
              /\ (pc[t] = "write_failed_call"
                    /\ pc'[t] \notin {"write_failed_call", "panicked"}
                    /\ scall[t] = NoCall) =>
                    /\ calls' = calls
                    /\ resolvedBy' = resolvedBy ]_vars

\* Some goroutine is inside call.done() on a done channel without room.
DeliveryBlocked ==
    \/ \E t \in Callers :
          /\ pc[t] \in {"shutdown_done", "write_failed_done"}
          /\ ~ChanHasRoom(calls[cur[t]].Done)
    \/ /\ pc[Recv] \in {"reply_done", "term_done"}
       /\ ~ChanHasRoom(calls[rcall].Done)

\* C17: with a codec whose Close makes the receive loop's next read fail and
\* under fair scheduling, once Close has closed the codec every Call then in
\* the pending table is eventually resolved with a non-nil error, and
\* shutdown eventually becomes true, unless a done channel runs out of room
\* (or a misuse of Go ends the process).
C17_CloseUnblocks ==
    /\ \A c \in CallIds :
          (/\ closeCount = 1
           /\ c \in Registered
           /\ pending[calls[c].Seq] = c)
          ~> \/ Resolved(c) /\ calls[c].Error # "nil"
             \/ DeliveryBlocked
             \/ pc[Recv] = "panicked"
    /\ (closeCount = 1) ~> (shutdown \/ DeliveryBlocked \/ pc[Recv] = "panicked")

\* C17 witness: Close has closed the codec, the receive loop has ended on
\* the failed header read, and two Calls that were waiting for replies have
\* been resolved by terminateCalls with that error.
C17_Witness ==
    /\ closeCount = 1 /\ closing /\ shutdown
    /\ pc[Recv] = "done"
    /\ err = "EOF"
    /\ \E c, d \in Registered :
        /\ c # d
        /\ resolvedBy[c] = <<"terminate">> /\ calls[c].Error = "EOF"
        /\ resolvedBy[d] = <<"terminate">> /\ calls[d].Error = "EOF"

\* C18, as claimed: the receive goroutine is never held inside call.done()
\* (in the loop or in terminateCalls, where it holds both locks) by a done
\* channel of capacity >= 1 that has no room.
C18_ReceiveNeverWaitsOnDone ==
    pc[Recv] \in {"reply_done", "term_done"} =>
        \/ ChanHasRoom(calls[rcall].Done)
        \/ chanCap[calls[rcall].Done] = 0

\* Positions at which a goroutine is inside a codec operation or about to
\* make one with nothing in between: cc.Write, cc.Close, cc.ReadHeader,
\* cc.ReadBody.
AtCodecOp(t) ==
    IF t = Recv THEN pc[t] \in {"read_header", "read_body"}
    ELSE pc[t] \in {"write", "close_io"}

\* C19, as claimed: no goroutine is at a codec operation while it holds mu.
C19_NoIOUnderMu ==
    \A t \in Threads : AtCodecOp(t) => mu # t

\* The lock a goroutine is waiting for at its position, if any.
WantsMu(t) == pc[t] \in {"register", "write_failed", "dispatch", "term_mu"}
WantsSending(t) == pc[t] = "term_lock"
\* a cannot proceed until b releases a lock.
WaitsFor(a, b) ==
    \/ WantsMu(a) /\ mu = b
    \/ WantsSending(a) /\ sending = b

\* C20: a goroutine that holds mu is at no position that requests a lock
\* (so the send lock is never requested under mu, and the only nesting is
\* sending then mu); no two or three goroutines wait for each other's locks
\* in a cycle; and while a sender is between registerCall and the end of
\* send it holds the send lock and terminateCalls is not past its
\* sending.Lock().  (A process ended by a panic keeps its locks as they
\* were.)
C20_LockDiscipline ==
    /\ \A t \in Threads :
          mu = t => /\ pc[t] \in {"close_io", "term_range", "term_done",
                                 "panicked"}
                    /\ ~WantsMu(t) /\ ~WantsSending(t)
    /\ mu = Recv => sending = Recv
    /\ \A a, b \in Threads : ~(WaitsFor(a, b) /\ WaitsFor(b, a))
    /\ \A a, b, c \in Threads :
          ~(WaitsFor(a, b) /\ WaitsFor(b, c) /\ WaitsFor(c, a))
    /\ \A t \in Callers :
          pc[t] \in {"register", "refused", "shutdown_done", "write",
                     "write_failed", "write_failed_call",
                     "write_failed_done"} =>
              /\ sending = t
              /\ pc[Recv] \notin {"term_mu", "term_range", "term_done",
                                   "term_unlock"}

\* C20 witness: a chain of waits without a cycle: the receive loop wants the
\* send lock held by a sender whose write failed, and that sender wants mu
\* held by a goroutine inside Close.
C20_Witness ==
    \E a, b \in Callers :
        /\ a # b
        /\ pc[Recv] = "term_lock" /\ sending = a
        /\ pc[a] = "write_failed" /\ mu = b
        /\ pc[b] = "close_io"

====
